---- MODULE Spec2Model ----
(***************************************************************************)
(* A model of code/zato-cache/setup.py: the packaging script of the        *)
(* zato-cache distribution.  One run of the script is one behaviour: the   *)
(* module body executes top to bottom, one statement per step.             *)
(*                                                                         *)
(* Paths are records [abs, parts]: `abs` says whether the path starts with *)
(* "/", `parts` is the sequence of its components.  A package name         *)
(* "zato.cache" is the sequence of its components, <<"zato", "cache">>.    *)
(* A dict is a function whose DOMAIN is the set of its keys.               *)
(***************************************************************************)
EXTENDS Integers, Sequences, FiniteSets, TLC

\* ------------------------------------------------------------------ bounds

\* The longest version file, in statements.
MaxStmts == 2

\* ------------------------------------------------------ the environment

Values == {"3.2.1", "3.0"}

RECURSIVE SeqsUpTo(_, _)
SeqsUpTo(S, n) ==
  IF n = 0 THEN {<<>>}
  ELSE LET shorter == SeqsUpTo(S, n - 1) IN
       shorter \cup {Append(s, x) : s \in {t \in shorter : Len(t) = n - 1}, x \in S}

\* Absolute directories, as the sequence of their components ("/" is <<>>).
AbsDirs == {<<>>, <<"a">>, <<"b">>, <<"a", "b">>}

\* A statement of a version file: `name = value`, or one that raises.
Bind(n, v) == [op |-> "bind", name |-> n, value |-> v]
Raise == [op |-> "raise", name |-> "", value |-> ""]
Stmts == {Bind("version", v) : v \in Values} \cup {Bind("release", "3.2.1"), Raise}
Bodies == SeqsUpTo(Stmts, MaxStmts)

Missing == [state |-> "missing", body |-> <<>>]
Unreadable == [state |-> "unreadable", body |-> <<>>]
Readable(b) == [state |-> "ok", body |-> b]
VersionFiles == {Missing, Unreadable} \cup {Readable(b) : b \in Bodies}
\* What lies at every other place a version file could be looked for.
Decoy == Readable(<<Bind("version", "9.9.9")>>)

\* The `src` directory of the working directory: whether it exists, its
\* sub-directories (paths below src) and those holding an __init__.py.
Tree(ds, is) == [exists |-> TRUE, dirs |-> ds, inits |-> is]
NoSrc == [exists |-> FALSE, dirs |-> {}, inits |-> {}]
EggInfo == <<"zato_cache.egg-info">>
Layouts ==
  { Tree({<<"zato">>, <<"zato", "cache">>}, {<<"zato">>, <<"zato", "cache">>}),
    Tree({<<"zato">>, <<"zato", "cache">>, <<"docs">>}, {<<"zato">>, <<"zato", "cache">>}),
    Tree({<<"zato">>, <<"zato", "cache">>}, {<<"zato", "cache">>}),
    Tree({<<"zato">>, <<"v1.0">>, EggInfo}, {<<"zato">>, <<"v1.0">>}),
    NoSrc }
\* '.' in name
HasDot(name) == name \in {"v1.0", "zato_cache.egg-info"}

\* ---------------------------------------------------------------- os.path

Path(a, ps) == [abs |-> a, parts |-> ps]
AbsPath(dir) == Path(TRUE, dir)
Prefix(s, n) == SubSeq(s, 1, n)
DropLast(s) == SubSeq(s, 1, Len(s) - 1)
IsPrefix(s, t) == Len(s) <= Len(t) /\ Prefix(t, Len(s)) = s
Ups(k) == [i \in 1..k |-> ".."]

\* os.path.normpath: "." is dropped; ".." removes the component before it,
\* is dropped at the root and is kept at the start of a relative path.
RECURSIVE NormParts(_, _, _)
NormParts(abs, parts, acc) ==
  IF parts = <<>> THEN acc
  ELSE LET c == Head(parts)
           rest == Tail(parts)
       IN IF c = "." THEN NormParts(abs, rest, acc)
          ELSE IF c = ".."
            THEN IF acc # <<>> /\ acc[Len(acc)] # ".."
                   THEN NormParts(abs, rest, DropLast(acc))
                   ELSE IF abs THEN NormParts(abs, rest, acc)
                        ELSE NormParts(abs, rest, Append(acc, ".."))
            ELSE NormParts(abs, rest, Append(acc, c))

normpath(p) == Path(p.abs, NormParts(p.abs, p.parts, <<>>))

\* os.path.join(a, *parts) for relative parts.
join(a, parts) == Path(a.abs, a.parts \o parts)

\* os.path.abspath: a relative path is joined to os.getcwd().
abspath(wd, p) == normpath(IF p.abs THEN p ELSE join(AbsPath(wd), p.parts))

\* os.path.dirname: everything before the last component.
dirname(p) == IF p.parts = <<>> THEN p ELSE Path(p.abs, DropLast(p.parts))

\* The file the operating system opens for path p in working directory wd.
OpenPath(wd, p) == IF p.abs THEN NormParts(TRUE, p.parts, <<>>)
                   ELSE NormParts(TRUE, wd \o p.parts, <<>>)

\* The values __file__ can have for a script in directory sd started from
\* working directory wd: the absolute path, or k levels up from wd and down
\* again, with or without a leading "./".
RelScript(wd, sd) ==
  { Ups(k) \o SubSeq(sd, Len(wd) - k + 1, Len(sd)) \o <<"setup.py">> :
      k \in {j \in 0..Len(wd) : IsPrefix(Prefix(wd, Len(wd) - j), sd)} }
ScriptFiles(wd, sd) ==
  {AbsPath(sd \o <<"setup.py">>)}
    \cup {Path(FALSE, r) : r \in RelScript(wd, sd)}
    \cup {Path(FALSE, <<".">> \o r) : r \in RelScript(wd, sd)}

\* Line 16: curdir = os.path.dirname(os.path.abspath(__file__))
\* (a variant that takes the working directory for the script's)
ScriptDir_Getcwd(wd, f) == AbsPath(wd)
ScriptDir(wd, f) == dirname(abspath(wd, f))

\* Line 17: os.path.normpath(os.path.join(curdir, '..', '.version.py'))
VersionPy(cd) == normpath(join(cd, <<"..", ".version.py">>))

\* ------------------------------------------------------------------ dicts

EmptyDict == [k \in {} |-> ""]
\* d[k] = v (and a variant that keeps an earlier value, as setdefault does)
DictSet_KeepFirst(d, k, v) == [x \in DOMAIN d \cup {k} |-> IF x \in DOMAIN d THEN d[x] ELSE v]
DictSet(d, k, v) == [x \in DOMAIN d \cup {k} |-> IF x = k THEN v ELSE d[x]]

\* execfile(path, globals): the statements run in order in `globals`, which
\* also receives __builtins__; a raising statement ends the execution.
RECURSIVE ExecBody(_, _)
ExecBody(body, d) ==
  IF body = <<>> THEN [raised |-> FALSE, d |-> d]
  ELSE LET st == Head(body)
       IN IF st.op = "raise" THEN [raised |-> TRUE, d |-> d]
          ELSE ExecBody(Tail(body), DictSet(d, st.name, st.value))

execfile(body, d) == ExecBody(body, DictSet(d, "__builtins__", "<module>"))

\* Line 20: version = _locals['version']
\* (variants: a default when the key is absent, as .get('version', '0.0.0');
\* `release` taking precedence; the key __version__)
Subscript_Default(d) ==
  IF "version" \in DOMAIN d THEN [found |-> TRUE, value |-> d["version"]]
  ELSE [found |-> TRUE, value |-> "0.0.0"]
Subscript_Release(d) ==
  IF "release" \in DOMAIN d THEN [found |-> TRUE, value |-> d["release"]]
  ELSE IF "version" \in DOMAIN d THEN [found |-> TRUE, value |-> d["version"]]
  ELSE [found |-> FALSE, value |-> ""]
Subscript_WrongKey(d) ==
  IF "__version__" \in DOMAIN d THEN [found |-> TRUE, value |-> d["__version__"]]
  ELSE [found |-> FALSE, value |-> ""]
Subscript(d) ==
  IF "version" \in DOMAIN d THEN [found |-> TRUE, value |-> d["version"]]
  ELSE [found |-> FALSE, value |-> ""]

\* ---------------------------------------------------------- find_packages

\* The sub-directories of directory `at` of the tree.
Children(tree, at) == {d \in tree.dirs : Len(d) = Len(at) + 1 /\ IsPrefix(at, d)}

\* setuptools.find_packages(where): walk the tree from the top; a directory
\* whose name has a dot or that holds no __init__.py is skipped with
\* everything below it; a missing `where` yields nothing.
RECURSIVE Walk(_, _, _)
Walk(tree, at, fuel) ==
  IF fuel = 0 THEN {}
  ELSE LET pkgs == {d \in Children(tree, at) : ~HasDot(d[Len(d)]) /\ d \in tree.inits}
       IN pkgs \cup UNION {Walk(tree, d, fuel - 1) : d \in pkgs}

\* (a variant that takes every directory for a package)
find_packages_AnyDir(tree) == IF tree.exists THEN tree.dirs ELSE {}
find_packages(tree) == IF tree.exists THEN Walk(tree, <<>>, Cardinality(tree.dirs) + 1) ELSE {}

\* Lines 22-35: the keyword arguments of setup().
Metadata(v, pkgs) ==
  [ name |-> "zato-cache",
    version |-> v,
    author |-> "Zato Source s.r.o.",
    author_email |-> "info@zato.io",
    url |-> "https://zato.io",
    package_dir |-> {<<"", "src">>},
    packages |-> pkgs,
    namespace_packages |-> <<"zato">>,
    zip_safe |-> FALSE ]

\* How the run ends once setup() has returned or raised: nothing follows the
\* call and nothing catches what it raises (a variant catches it).
ScriptExit_Swallow(r) == "success"
ScriptExit(r) == IF r = "returned" THEN "success" ELSE "failed"

\* ------------------------------------------------------------------ state

VARIABLES
  pc,           \* the statement about to run, "done" or "failed"
  outcome,      \* how the process ended: "running", "success" or "failed"
  error,        \* the exception that ended the run, or "none"
  cwd,          \* os.getcwd(), an absolute directory
  scriptDir,    \* the directory that holds setup.py
  file,         \* __file__
  fs,           \* the version files on disk: place |-> file
  cwdSrc,       \* the `src` directory of the working directory
  imported,     \* the modules imported so far
  curdir,       \* the script's names: <<>> when unbound, <<value>> when bound
  _version_py,
  _locals,
  version,
  args,         \* the evaluated keyword arguments of the setup() call
  setupCalls,   \* the metadata of every setup() invocation, in order
  setupResult,  \* "none", or how setup() ended: "returned" or "raised"
  reads         \* the places opened for reading, in order

vars == <<pc, outcome, error, cwd, scriptDir, file, fs, cwdSrc, imported, curdir,
          _version_py, _locals, version, args, setupCalls, setupResult, reads>>

env == <<cwd, scriptDir, file>>
disk == <<fs, cwdSrc>>
names == <<curdir, _version_py, _locals, version, args>>
calls == <<setupCalls, setupResult>>

\* Where `../.version.py` of the script lies.
VersionPlace(sd) == DropLast(sd) \o <<".version.py">>
VersionPlaces == {d \o <<".version.py">> : d \in AbsDirs}
ReadFile(disk_fs, place) == IF place \in DOMAIN disk_fs THEN disk_fs[place] ELSE Missing

Init ==
  /\ pc = "l12"
  /\ outcome = "running"
  /\ error = "none"
  /\ cwd \in AbsDirs
  /\ scriptDir \in AbsDirs
  /\ file \in ScriptFiles(cwd, scriptDir)
  /\ \E vf \in VersionFiles :
       fs = [p \in VersionPlaces |-> IF p = VersionPlace(scriptDir) THEN vf ELSE Decoy]
  /\ cwdSrc \in Layouts
  /\ imported = {}
  /\ curdir = <<>>
  /\ _version_py = <<>>
  /\ _locals = <<>>
  /\ version = <<>>
  /\ args = <<>>
  /\ setupCalls = <<>>
  /\ setupResult = "none"
  /\ reads = <<>>

\* An uncaught exception ends the run.
Fail(e) ==
  /\ pc' = "failed"
  /\ outcome' = "failed"
  /\ error' = e

Goto(l) ==
  /\ pc' = l
  /\ UNCHANGED <<outcome, error>>

\* An import statement: the module is found, or ImportError is raised.
Import(at, module, next) ==
  /\ pc = at
  /\ \E found \in BOOLEAN :
       IF found
         THEN Goto(next) /\ imported' = imported \cup {module}
         ELSE Fail("ImportError") /\ UNCHANGED imported
  /\ UNCHANGED <<env, disk, names, calls, reads>>

\* Line 12: import os (part of the interpreter: always found)
ImportOs ==
  /\ pc = "l12"
  /\ Goto("l13")
  /\ imported' = imported \cup {"os"}
  /\ UNCHANGED <<env, disk, names, calls, reads>>

\* Line 13: from setuptools import Extension, find_packages, setup
ImportSetuptools == Import("l13", "setuptools", "l14")

\* Line 14: from Cython.Build import cythonize
ImportCython == Import("l14", "Cython", "l16")

\* Line 16
BindCurdir ==
  /\ pc = "l16"
  /\ curdir' = <<ScriptDir(cwd, file)>>
  /\ Goto("l17")
  /\ UNCHANGED <<env, disk, imported, _version_py, _locals, version, args, calls, reads>>

\* Line 17
BindVersionPy ==
  /\ pc = "l17"
  /\ _version_py' = <<VersionPy(curdir[1])>>
  /\ Goto("l18")
  /\ UNCHANGED <<env, disk, imported, curdir, _locals, version, args, calls, reads>>

\* Line 18: _locals = {}
BindLocals ==
  /\ pc = "l18"
  /\ _locals' = <<EmptyDict>>
  /\ Goto("l19")
  /\ UNCHANGED <<env, disk, imported, curdir, _version_py, version, args, calls, reads>>

\* Line 19: execfile(_version_py, _locals).  The file is opened for reading;
\* IOError when it is missing or unreadable, else its statements run in the
\* dict _locals, and what they raise propagates.  (A variant opens the file
\* with mode 'w', which creates or empties it.)
Execfile_OpenForWriting ==
  /\ pc = "l19"
  /\ LET place == OpenPath(cwd, _version_py[1])
     IN /\ reads' = Append(reads, place)
        /\ fs' = [p \in DOMAIN fs \cup {place} |-> IF p = place THEN Readable(<<>>) ELSE fs[p]]
        /\ _locals' = <<execfile(<<>>, _locals[1]).d>>
        /\ Goto("l20")
  /\ UNCHANGED <<env, cwdSrc, imported, curdir, _version_py, version, args, calls>>

Execfile ==
  /\ pc = "l19"
  /\ LET place == OpenPath(cwd, _version_py[1])
         f == ReadFile(fs, place)
         run == execfile(f.body, _locals[1])
     IN /\ reads' = Append(reads, place)
        /\ IF f.state # "ok"
             THEN Fail("IOError") /\ UNCHANGED _locals
             ELSE /\ _locals' = <<run.d>>
                  /\ IF run.raised THEN Fail("Exception") ELSE Goto("l20")
  /\ UNCHANGED <<env, disk, imported, curdir, _version_py, version, args, calls>>

\* Line 20: version = _locals['version'], KeyError when the key is absent.
BindVersion ==
  /\ pc = "l20"
  /\ LET got == Subscript(_locals[1])
     IN IF got.found
          THEN Goto("l22") /\ version' = <<got.value>>
          ELSE Fail("KeyError") /\ UNCHANGED version
  /\ UNCHANGED <<env, disk, imported, curdir, _version_py, _locals, args, calls, reads>>

\* Lines 22-34: the arguments of the call are evaluated, find_packages('src')
\* among them, against the working directory.
EvalArgs ==
  /\ pc = "l22"
  /\ args' = <<Metadata(version[1], find_packages(cwdSrc))>>
  /\ Goto("call")
  /\ UNCHANGED <<env, disk, imported, curdir, _version_py, _locals, version, calls, reads>>

\* Lines 22-35: setup() is entered with the arguments.  (A variant calls it
\* a second time.)
CallSetup_Twice ==
  /\ pc = "call"
  /\ setupCalls' = setupCalls \o <<args[1], args[1]>>
  /\ Goto("in_setup")
  /\ UNCHANGED <<env, disk, imported, names, setupResult, reads>>

CallSetup ==
  /\ pc = "call"
  /\ setupCalls' = Append(setupCalls, args[1])
  /\ Goto("in_setup")
  /\ UNCHANGED <<env, disk, imported, names, setupResult, reads>>

\* setup() runs the requested commands and returns or raises; it may leave
\* an egg-info directory in `src`.  The script ends with it.
SetupEnds ==
  /\ pc = "in_setup"
  /\ \E r \in {"returned", "raised"}, egg \in BOOLEAN :
       /\ setupResult' = r
       /\ outcome' = ScriptExit(r)
       /\ error' = IF r = "raised" THEN "SetupError" ELSE "none"
       /\ cwdSrc' = IF egg /\ cwdSrc.exists
                      THEN [cwdSrc EXCEPT !.dirs = @ \cup {EggInfo}] ELSE cwdSrc
  /\ pc' = "done"
  /\ UNCHANGED <<env, fs, imported, names, setupCalls, reads>>

Next ==
  \/ ImportOs
  \/ ImportSetuptools
  \/ ImportCython
  \/ BindCurdir
  \/ BindVersionPy
  \/ BindLocals
  \/ Execfile
  \/ BindVersion
  \/ EvalArgs
  \/ CallSetup
  \/ SetupEnds

Spec == Init /\ [][Next]_vars

\* The interpreter runs the next statement as long as there is one.
FairSpec == Spec /\ WF_vars(Next)

Terminated == pc \in {"done", "failed"}

\* ------------------------------------------------------------- properties

\* The version file of the script, as it is on disk.
TheVersionFile == ReadFile(fs, VersionPlace(scriptDir))

\* The statements of a body that run: those before its first raise.
RECURSIVE Executed(_)
Executed(body) ==
  IF body = <<>> \/ Head(body).op = "raise" THEN <<>>
  ELSE <<Head(body)>> \o Executed(Tail(body))
Raises(body) == \E i \in DOMAIN body : body[i].op = "raise"

\* What a body binds to name n: the value of its last assignment to n that
\* runs, <<>> when there is none.
RECURSIVE LastBound(_, _)
LastBound(body, n) ==
  IF body = <<>> THEN <<>>
  ELSE LET st == body[Len(body)]
       IN IF st.op = "bind" /\ st.name = n THEN <<st.value>>
          ELSE LastBound(DropLast(body), n)
Declared(f) == LastBound(Executed(f.body), "version")

\* The file exists, is readable and defines `version`.
DefinesVersion(f) == f.state = "ok" /\ Declared(f) # <<>>
\* ... and its execution raises nothing.
WellFormed(f) == DefinesVersion(f) /\ ~Raises(f.body)
\* The file is missing, unreadable or runs without defining `version`.
BadVersionFile(f) == f.state # "ok" \/ Declared(f) = <<>>

AllImported == {"os", "setuptools", "Cython"} \subseteq imported
BeforeArgs == {"l12", "l13", "l14", "l16", "l17", "l18", "l19", "l20"}

\* C1: the metadata passed to setup() has name 'zato-cache',
\* namespace_packages ['zato'] and, as version, the value the version file
\* binds to `version`.
C1_Metadata ==
  \A i \in DOMAIN setupCalls :
    /\ setupCalls[i].name = "zato-cache"
    /\ setupCalls[i].namespace_packages = <<"zato">>
    /\ DefinesVersion(TheVersionFile)
    /\ setupCalls[i].version = Declared(TheVersionFile)[1]

\* A version file that assigns `version` twice has reached setup().
C1_Witness ==
  /\ setupCalls # <<>>
  /\ setupCalls[1].version = "3.2.1"
  /\ TheVersionFile.body = <<Bind("version", "3.0"), Bind("version", "3.2.1")>>
  /\ find_packages(cwdSrc) = {<<"zato">>, <<"zato", "cache">>}

\* C2: with a version file that is missing, unreadable or does not define
\* `version`, the run fails at the statement that finds it out: setup() is
\* never invoked, no arguments are built, no version is substituted, and the
\* run ends failed.
C2_BadVersionFails ==
  BadVersionFile(TheVersionFile) =>
    /\ setupCalls = <<>>
    /\ setupResult = "none"
    /\ version = <<>>
    /\ args = <<>>
    /\ pc \in BeforeArgs \cup {"failed"}
    /\ (TheVersionFile.state # "ok" /\ reads # <<>> => pc = "failed" /\ error = "IOError")
    /\ (Terminated => outcome = "failed")

\* The version file ran to its end without defining `version`: KeyError.
C2_Witness ==
  /\ pc = "failed"
  /\ error = "KeyError"
  /\ AllImported
  /\ TheVersionFile = Readable(<<Bind("release", "3.2.1")>>)
  /\ setupCalls = <<>>

\* C3 (as stated): whenever the version file exists, is readable and defines
\* `version`, the run does not fail before setup() is called.
C3_OnlyVersionFails ==
  DefinesVersion(TheVersionFile) /\ pc = "failed" => setupCalls # <<>>

\* C3 (amended): a run whose version file exists, is readable, defines
\* `version` and raises nothing fails before the setup() call only with an
\* ImportError of line 13 or 14; once both imports are done it does not fail
\* before setup() is called.
C3_FailsOnlyAtImport ==
  WellFormed(TheVersionFile) =>
    /\ (pc = "failed" => error = "ImportError" /\ ~AllImported /\ reads = <<>>)
    /\ (AllImported => pc # "failed")

\* Both imports succeeded and setup() was reached.
C3_Witness ==
  /\ WellFormed(TheVersionFile)
  /\ AllImported
  /\ pc = "in_setup"
  /\ setupCalls # <<>>

\* C5: the only file read for the version is `.version.py` in the parent of
\* the directory that holds setup.py, whatever the working directory and
\* however the script was named on the command line.
C5_VersionFilePlace ==
  /\ \A i \in DOMAIN reads : reads[i] = VersionPlace(scriptDir)
  /\ _version_py # <<>> =>
       _version_py[1] = AbsPath(VersionPlace(scriptDir))
  /\ pc \in {"l20", "l22", "call", "in_setup", "done"} => reads # <<>>

\* The script was started from another directory, by a relative path.
C5_Witness ==
  /\ reads # <<>>
  /\ cwd # scriptDir
  /\ cwd # DropLast(scriptDir)
  /\ ~file.abs
  /\ file.parts[1] = ".."

\* The sub-directories of `src` that are packages: every directory on the
\* way from `src` down to them holds an __init__.py and has no dot in its
\* name.
PackageDirs(tree) ==
  {d \in tree.dirs : \A i \in 1..Len(d) : Prefix(d, i) \in tree.inits /\ ~HasDot(d[i])}

C6_ExitIsSetups ==
  setupCalls # <<>> =>
    \/ pc = "in_setup" /\ setupResult = "none" /\ outcome = "running"
    \/ /\ pc = "done"
       /\ setupResult \in {"returned", "raised"}
       /\ outcome = (IF setupResult = "returned" THEN "success" ELSE "failed")
       /\ ~ENABLED Next

\* setup() raised and the run failed.
C6_Witness ==
  /\ pc = "done"
  /\ setupResult = "raised"
  /\ outcome = "failed"

Order == <<"l12", "l13", "l14", "l16", "l17", "l18", "l19", "l20", "l22", "call", "in_setup", "done">>
Rank(l) == CHOOSE i \in DOMAIN Order : Order[i] = l

\* C7 (as stated): in every run the version file is read exactly once, and
\* setup() is invoked exactly once when the read succeeds.
C7_ReadExactlyOnce ==
  Terminated =>
    /\ Len(reads) = 1
    /\ (TheVersionFile.state = "ok" /\ ~Raises(TheVersionFile.body) => Len(setupCalls) = 1)

\* C7 (amended): the statements run in the order of the source, each at most
\* once, a failing one ending the run; the version file is read at most once,
\* exactly once in a run that gets past line 14, and before any setup() call;
\* setup() is invoked at most once, exactly once in a run that gets past
\* line 20, which is every run past line 14 whose version file is readable,
\* raises nothing and defines `version`; and every run ends.
C7_Sequential ==
  /\ [][pc' = "failed" \/ Rank(pc') = Rank(pc) + 1]_vars
  /\ [](/\ Len(reads) <= 1
        /\ Len(setupCalls) <= 1
        /\ (setupCalls # <<>> \/ args # <<>> => Len(reads) = 1)
        /\ (pc # "failed" /\ Rank(pc) > Rank("l19") => Len(reads) = 1)
        /\ (pc # "failed" /\ Rank(pc) > Rank("call") <=> Len(setupCalls) = 1)
        /\ (Terminated /\ AllImported =>
              /\ Len(reads) = 1
              /\ (Len(setupCalls) = 1 <=> WellFormed(TheVersionFile))))
  /\ <>Terminated

\* A run that read the file and called setup() has ended.
C7_Witness ==
  /\ pc = "done"
  /\ Len(reads) = 1
  /\ Len(setupCalls) = 1

\* The metadata the script builds from a version file of body b.
RunMetadata(b, pkgs) == Metadata(Subscript(execfile(b, EmptyDict).d).value, pkgs)

\* C8: the metadata passed to setup() is what any other version file that
\* binds the same `version` would give, whatever else that file defines; and
\* name, author, author_email, url, package_dir, namespace_packages and
\* zip_safe are the literals of the script.
C8_OnlyVersionMatters ==
  \A i \in DOMAIN setupCalls :
    /\ \A b \in Bodies :
         ~Raises(b) /\ LastBound(b, "version") = Declared(TheVersionFile)
           => RunMetadata(b, setupCalls[i].packages) = setupCalls[i]
    /\ setupCalls[i].name = "zato-cache"
    /\ setupCalls[i].author = "Zato Source s.r.o."
    /\ setupCalls[i].author_email = "info@zato.io"
    /\ setupCalls[i].url = "https://zato.io"
    /\ setupCalls[i].package_dir = {<<"", "src">>}
    /\ setupCalls[i].namespace_packages = <<"zato">>
    /\ setupCalls[i].zip_safe = FALSE

\* setup() was called for a version file that also binds another name.
C8_Witness ==
  /\ setupCalls # <<>>
  /\ TheVersionFile.body = <<Bind("release", "3.2.1"), Bind("version", "3.0")>>
  /\ setupCalls[1].version = "3.0"

\* C9: no step of the script before setup() runs changes the version files
\* on disk, the `src` directory or the working directory: only names of the
\* script are bound.
C9_DiskUntouched ==
  [][pc # "in_setup" => fs' = fs /\ cwdSrc' = cwdSrc /\ cwd' = cwd]_vars

\* The version file has been executed and setup() is about to be called.
C9_Witness ==
  /\ pc = "call"
  /\ Len(reads) = 1
  /\ "version" \in DOMAIN _locals[1]
  /\ TheVersionFile.state = "ok"

====
